---------------------------- MODULE Spec2Model ----------------------------
(***************************************************************************)
(* Model of btc_taskbar_monitor.pyw (class BTCTaskbarMonitor): the         *)
(* selection state and its settings file, the per-symbol websocket         *)
(* connection threads with their shared reconnect counter, and the         *)
(* main-thread (Tk) handlers run, apply_currency_selection, reconnect and  *)
(* quit_application.                                                       *)
(*                                                                         *)
(* A Tk handler runs to completion on the main thread and is one action.   *)
(* A connection thread (start_websocket_thread) runs the coroutine         *)
(* connect_binance_websocket on an event loop of its own; it is a small    *)
(* program counter machine, one action per await point or per group of     *)
(* statements between two points at which another thread can be scheduled  *)
(* in a way that matters (the check and the read-modify-write of the       *)
(* reconnect counter are separate steps: nothing in the code makes them    *)
(* atomic).                                                                *)
(***************************************************************************)
EXTENDS Integers, Sequences, FiniteSets

VARIABLES
    settings_file,        \* contents of ~/crypto_monitor_settings.json
    selected_currencies,  \* self.selected_currencies (a list)
    currency_data,        \* self.currency_data[c] = {price, price_change, change_24h}
    running,              \* self.running
    websockets,           \* self.websockets[c]: "none" (no key), else state of the stored object
    reconnect_attempts,   \* self.reconnect_attempts[c]: NoKey when the dict has no key c
    threads,              \* the connection threads, by slot
    phase,                \* main thread: "init" (constructed), "mainloop", "quit"
    uiOps,                \* number of user operations performed so far
    pending,              \* pending[c]: calls of update_price_display(c) that
                          \* root.after has scheduled and Tk has not run yet
    display,              \* display[c]: what the label of c shows
    has_closed,           \* the connection object of the installed websockets
                          \* package has the attribute "closed"
    failed,               \* history: failed[c] iff the connection of c gave up at the
                          \* retry limit and no start was called for c since
    fails,                \* history, kept by SpecRetry only: fails[c] is the number of
                          \* failures the connection of c has handled in a row
    last                  \* history, kept by the specifications of single parts of
                          \* the program: the last step of interest and its input

vars == <<settings_file, selected_currencies, currency_data, running,
          websockets, reconnect_attempts, threads, phase, uiOps, pending,
          display, has_closed, failed, fails, last>>

\* the labels and the Tk queue
gui == <<pending, display>>

\* the history variables a specification may keep
history == <<fails, last>>

----------------------------------------------------------------------------
(* Bounds of the model *)

\* thread slots: connection threads that exist at the same time
MaxThreads == 2
\* user operations (apply_currency_selection, reconnect) in one run
MaxUiOps == 1
\* the largest value the model lets reconnect_attempts[c] take
MaxCount == 7
\* the largest value of a thread's count of failures in a row (history)
MaxFails == 7
\* scheduled and not yet run calls of update_price_display of one symbol
MaxPending == 1

(* Program constants *)

\* self.available_currencies, in dict (insertion) order
Catalog == <<"BTC", "ETH", "BNB", "TRX", "ASTER">>

max_reconnect_attempts == 5

\* the bounds of the selection, "1 <= len(new_selection) <= 3" and "[:3]"
MinSelected == 1
MaxSelected == 3

----------------------------------------------------------------------------
(* Helpers *)

Range(s) == {s[i] : i \in 1..Len(s)}

Codes == Range(Catalog)

Min(S) == CHOOSE x \in S : \A y \in S : x <= y

\* [c for c in s if c in keep], order kept
RECURSIVE FilterSeq(_, _)
FilterSeq(s, keep) ==
    IF s = <<>> THEN <<>>
    ELSE IF Head(s) \in keep THEN <<Head(s)>> \o FilterSeq(Tail(s), keep)
    ELSE FilterSeq(Tail(s), keep)

NoKey == -1

\* a value of the history variable last: a step and its input
StepOf(op, arg) == [op |-> op, arg |-> arg]
NoStep == StepOf("none", 0)

\* self.reconnect_attempts.get(c, 0)
AttemptsGet(att, c) == IF att[c] = NoKey THEN 0 ELSE att[c]

Threads == 1..MaxThreads

\* a thread whose coroutine is still running
LivePcs == {"connect", "recv", "price_change", "change_24h", "except",
            "incr", "store", "sleep"}

\* a slot with no running thread: never used, or its thread has ended
EndedPcs == {"free"}

\* cur: the currency argument; pc: where the coroutine is; tmp: a local
\* value not yet stored (the counter read at line 457, or price_change of
\* the tick being written); reg: self.websockets[cur] holds this thread's
\* websocket object
FreeThread == [cur |-> "BTC", pc |-> "free", tmp |-> 0, reg |-> FALSE]


----------------------------------------------------------------------------
(* The settings file: load_settings and save_settings *)

\* A code the catalog does not know, as a hand-edited file may hold
UnknownCode == "XRP"

\* What the file holds: no file; bytes json.load rejects; a JSON value that
\* is not an object; an object without the key; an object whose
\* selected_currencies is not iterable (a number, null); an object whose
\* selected_currencies is the list sel.
FileOf(kind, sel) == [kind |-> kind, sel |-> sel]

\* The files the application is started with: at its first run, and after
\* the file was edited by hand to name a code twice
InitFiles ==
    { FileOf("missing", <<>>),
      FileOf("list", <<"BTC", "BTC">>) }

\* Lists a settings file may hold: the empty list, unknown codes only
\* (the last is the string "BTC", iterated character by character), known
\* and unknown codes mixed, a code twice, codes not in catalog order,
\* three codes, more than three
SettingsLists ==
    { <<>>, <<UnknownCode>>, <<"B", "T", "C">>,
      <<"ETH", UnknownCode>>, <<UnknownCode, "BNB", "BTC">>,
      <<"BTC", "BTC">>, <<"ETH", "BTC">>,
      <<"BTC", "ETH", "BNB">>,
      <<"TRX", "BNB", "ETH", "BTC">>,
      <<UnknownCode, "ASTER", "TRX", "BNB", "ETH">> }

\* The files load_settings is checked on
SettingsFiles ==
    { FileOf(k, <<>>) :
        k \in {"missing", "unparsable", "notdict", "nokey", "badvalue"} }
    \cup { FileOf("list", l) : l \in SettingsLists }

\* a load that gives up on the whole list when one code is unknown
load_settings_AllOrDefault(file) ==
    IF file.kind = "list" /\ file.sel # <<>> /\ Range(file.sel) \subseteq Codes
    THEN SubSeq(file.sel, 1, Min({Len(file.sel), MaxSelected}))
    ELSE <<"BTC">>

\* load_settings: the value it leaves in self.selected_currencies
load_settings(file) ==
    IF file.kind = "missing" THEN <<"BTC">>
    ELSE IF file.kind \in {"unparsable", "notdict", "badvalue"}
    THEN <<"BTC">>                       \* except Exception
    ELSE LET saved_currencies ==
                 IF file.kind = "nokey" THEN <<"BTC">> ELSE file.sel
             valid_currencies == FilterSeq(saved_currencies, Codes)
         IN  IF valid_currencies = <<>> THEN <<"BTC">>
             ELSE IF Len(valid_currencies) > MaxSelected
             THEN SubSeq(valid_currencies, 1, MaxSelected)
             ELSE valid_currencies

\* What the file system does to a save: it works, open() fails, or the
\* write fails after open(..., 'w') has truncated the file
IoOutcomes == {"ok", "open_error", "write_error"}

\* the list s, last element first
RECURSIVE Reverse(_)
Reverse(s) == IF s = <<>> THEN <<>> ELSE Reverse(Tail(s)) \o <<Head(s)>>

\* a save that writes the list in another order
save_settings_Reversed(file, selection, io) ==
    CASE io = "ok"         -> FileOf("list", Reverse(selection))
      [] io = "open_error" -> file
      [] OTHER             -> FileOf("unparsable", <<>>)

\* save_settings: the file after it; an I/O error is caught and logged
save_settings(file, selection, io) ==
    CASE io = "ok"         -> FileOf("list", selection)
      [] io = "open_error" -> file
      [] OTHER             -> FileOf("unparsable", <<>>)

----------------------------------------------------------------------------
(* Inbound messages and their decoding (lines 422-451) *)

\* A field of the JSON object: absent, null, a string float() rejects, or
\* a numeric value v
Absent  == [t |-> "absent", v |-> 0]
Null    == [t |-> "null", v |-> 0]
Text    == [t |-> "text", v |-> 0]
Num(v)  == [t |-> "num", v |-> v]

MsgOf(kind, c, P) == [kind |-> kind, c |-> c, P |-> P]

\* float(data[k]): the value, or the exception raised
FieldError(f) ==
    CASE f.t = "absent" -> "KeyError"
      [] f.t = "null"   -> "TypeError"
      [] f.t = "text"   -> "ValueError"
      [] OTHER          -> "none"

\* The exception the try block of lines 422-447 raises on message m
\* ("none": the message decodes)
DecodeError(m) ==
    CASE m.kind = "notjson"   -> "JSONDecodeError"
      [] m.kind = "notobject" -> "TypeError"     \* data['c'] on a list, number, string, null
      [] OTHER ->
            IF FieldError(m.c) # "none" THEN FieldError(m.c)
            ELSE FieldError(m.P)

\* except (KeyError, ValueError, json.JSONDecodeError)
CaughtPerMessage == {"KeyError", "ValueError", "JSONDecodeError"}


----------------------------------------------------------------------------
(* Prices (lines 428-436).  A price is a whole number of PriceUnit-ths. *)

PriceUnit == 100000

Pow10(n) == IF n = 0 THEN 1 ELSE IF n = 1 THEN 10 ELSE IF n = 2 THEN 100
            ELSE IF n = 3 THEN 1000 ELSE IF n = 4 THEN 10000 ELSE 100000

\* the number of decimals chosen from what the price looks like once it
\* is rounded
Decimals_FromRounded(new_price) ==
    IF (new_price + 5) \div 10 < 10 * 10000 THEN 4
    ELSE IF (new_price + 50) \div 100 < 100 * 1000 THEN 3
    ELSE IF (new_price + 500) \div 1000 < 10000 * 100 THEN 2
    ELSE 1

\* the number of decimals of the format chosen for new_price
Decimals(new_price) ==
    IF new_price < 10 * PriceUnit THEN 4
    ELSE IF new_price < 100 * PriceUnit THEN 3
    ELSE IF new_price < 10000 * PriceUnit THEN 2
    ELSE 1

\* f"{new_price:,.<d>f}": new_price rounded to d decimals, as a whole
\* number of 10^-d (a tie goes to the even neighbour)
RoundTo(new_price, d) ==
    LET step == Pow10(5 - d)
        q    == new_price \div step
        r    == new_price % step
    IN  IF 2 * r > step THEN q + 1
        ELSE IF 2 * r < step THEN q
        ELSE IF q % 2 = 0 THEN q ELSE q + 1

\* the string stored in currency_data[c]['price']
Loading == [text |-> "Loading...", dec |-> 0, val |-> 0]
Error   == [text |-> "Error", dec |-> 0, val |-> 0]
formatted_price(new_price) ==
    [text |-> "number", dec |-> Decimals(new_price),
     val |-> RoundTo(new_price, Decimals(new_price))]

\* Messages the feed delivers: one that decodes (a price with no change
\* over 24 hours), and one of each way of not decoding.  c is in
\* PriceUnit-ths, P in hundredths of a percent.
Messages ==
    { MsgOf("object", Num(1234567000), Num(0)),
      MsgOf("notjson", Absent, Absent),
      MsgOf("notobject", Absent, Absent),
      MsgOf("object", Absent, Num(0)),
      MsgOf("object", Num(1234567000), Text),
      MsgOf("object", Null, Num(0)) }

----------------------------------------------------------------------------
(* The labels (lines 193-227 and 382-402) *)

\* an arrow that points down for a change of zero
arrow_ZeroDown(price_change) == IF price_change > 0 THEN "up" ELSE "down"

\* lines 391-396: the arrow (and the colour, green with up, red with down)
arrow(price_change) == IF price_change >= 0 THEN "up" ELSE "down"

\* no label: the currency is not a key of self.price_labels
NoLabel ==
    [shown |-> "none", price |-> Loading, price_change |-> 0,
     arrow |-> "none", change_24h |-> 0, busy |-> FALSE]

\* a label as update_price_labels creates it: "<icon> <code>: Loading..."
LoadingLabel ==
    [shown |-> "loading", price |-> Loading, price_change |-> 0,
     arrow |-> "none", change_24h |-> 0, busy |-> FALSE]

\* update_price_labels: every label destroyed, one created for each
\* selected currency
update_price_labels(sel) ==
    [c \in Codes |-> IF c \in Range(sel) THEN LoadingLabel ELSE NoLabel]

----------------------------------------------------------------------------
(* The state after BTCTaskbarMonitor() (lines 16-48) *)

InitOf(files) ==
    /\ settings_file \in files
    /\ selected_currencies = load_settings(settings_file)
    /\ currency_data = [c \in Codes |->
           [price |-> Loading, price_change |-> 0, change_24h |-> 0]]
    /\ running = TRUE
    /\ websockets = [c \in Codes |-> "none"]
    /\ reconnect_attempts = [c \in Codes |-> NoKey]
    /\ threads = [t \in Threads |-> FreeThread]
    /\ phase = "init"
    /\ uiOps = 0
    /\ pending = [c \in Codes |-> 0]
    /\ display = update_price_labels(selected_currencies)
    /\ has_closed \in BOOLEAN
    /\ failed = [c \in Codes |-> FALSE]
    /\ fails = [c \in Codes |-> 0]
    /\ last = NoStep

Init == InitOf(InitFiles)

----------------------------------------------------------------------------
(* start_websocket_thread and start_websocket_connections *)

FreeSlots(thr) == {t \in Threads : thr[t].pc \in EndedPcs}

\* start_websocket_thread(currency): a new thread about to connect; it
\* takes the lowest slot that holds no running thread
start_websocket_thread(thr, currency) ==
    [thr EXCEPT ![Min(FreeSlots(thr))] =
        [cur |-> currency, pc |-> "connect", tmp |-> 0, reg |-> FALSE]]

\* websocket_closed of lines 370-373 for a stored websocket in state ws:
\* the attribute "closed" of the connection object; the README installs
\* "websockets" with no version, and the connection class of websockets 14
\* and later (websockets.asyncio.client.ClientConnection) has no such
\* attribute, so the read raises AttributeError and the bare except makes
\* websocket_closed True
websocket_closed(ws) == IF has_closed THEN ws = "closed" ELSE TRUE

\* "not websocket_exists or websocket_closed" (lines 368-375)
NeedsStart(currency) ==
    \/ websockets[currency] = "none"
    \/ websocket_closed(websockets[currency])

\* the loop of start_websocket_connections over the list sel: the
\* counters and the threads after it
RECURSIVE StartLoop(_, _, _)
StartLoop(sel, att, thr) ==
    IF sel = <<>> THEN [att |-> att, thr |-> thr]
    ELSE IF NeedsStart(Head(sel))
    THEN StartLoop(Tail(sel), [att EXCEPT ![Head(sel)] = 0],
                   start_websocket_thread(thr, Head(sel)))
    ELSE StartLoop(Tail(sel), att, thr)

\* the number of threads start_websocket_connections starts for sel
StartCount(sel) == Cardinality({i \in 1..Len(sel) : NeedsStart(sel[i])})

start_websocket_connections(sel) ==
    /\ StartCount(sel) <= Cardinality(FreeSlots(threads))
    /\ LET r == StartLoop(sel, reconnect_attempts, threads)
       IN  /\ reconnect_attempts' = r.att
           /\ threads' = r.thr
    /\ failed' = [c \in Codes |->
           IF c \in Range(sel) /\ NeedsStart(c) THEN FALSE ELSE failed[c]]


----------------------------------------------------------------------------
(* The handlers of the main thread *)

\* asyncio.create_task(websocket.close()) called from the main thread
\* (lines 347-350 and 550-553): the Tk thread runs no event loop, so
\* create_task raises RuntimeError, which the bare except swallows; the
\* websocket object is left as it was.
close_from_main_thread(ws) == ws

\* the symbols apply_currency_selection tries to close (lines 345-346)
CloseRequested(old, new) ==
    {c \in Range(old) : c \notin Range(new) /\ websockets[c] # "none"}

\* the list built from the dialog's checkboxes (line 341): the ticked
\* codes, in the order of the catalog
SelectionOf(ticked) == FilterSeq(Catalog, ticked)

\* run() (lines 557-572), up to entering the main loop
Run ==
    /\ phase = "init"
    /\ start_websocket_connections(selected_currencies)
    /\ phase' = "mainloop"
    /\ UNCHANGED <<settings_file, selected_currencies, currency_data,
                   running, websockets, uiOps, gui>>
    /\ UNCHANGED has_closed

\* an apply without the test of line 343
apply_currency_selection_Unchecked(ticked, io) ==
    LET new_selection == SelectionOf(ticked) IN
    /\ phase = "mainloop"
    /\ uiOps < MaxUiOps
    /\ uiOps' = uiOps + 1
    /\ websockets' = websockets
    /\ selected_currencies' = new_selection
    /\ display' = update_price_labels(new_selection)
    /\ settings_file' = save_settings(settings_file, new_selection, io)
    /\ start_websocket_connections(new_selection)
    /\ UNCHANGED <<currency_data, running, phase, pending>>
    /\ UNCHANGED has_closed

\* an apply that gives up when the save fails: the selection is kept as it
\* was and no connection is started
apply_currency_selection_Rollback(ticked, io) ==
    LET new_selection == SelectionOf(ticked) IN
    /\ phase = "mainloop"
    /\ uiOps < MaxUiOps
    /\ uiOps' = uiOps + 1
    /\ IF /\ MinSelected <= Len(new_selection)
          /\ Len(new_selection) <= MaxSelected
          /\ io = "ok"
       THEN /\ websockets' = websockets
            /\ selected_currencies' = new_selection
            /\ display' = update_price_labels(new_selection)
            /\ settings_file' = save_settings(settings_file, new_selection, io)
            /\ start_websocket_connections(new_selection)
            /\ UNCHANGED <<currency_data, running, phase, pending>>
       ELSE UNCHANGED <<settings_file, selected_currencies, currency_data,
                        running, websockets, reconnect_attempts, threads,
                        phase, failed, gui>>
    /\ UNCHANGED has_closed

\* apply_currency_selection (lines 339-362) with the codes of ticked
\* checked in the dialog; io is what the file system does to the save
apply_currency_selection(ticked, io) ==
    LET new_selection == SelectionOf(ticked) IN
    /\ phase = "mainloop"
    /\ uiOps < MaxUiOps
    /\ uiOps' = uiOps + 1
    /\ IF MinSelected <= Len(new_selection) /\ Len(new_selection) <= MaxSelected
       THEN /\ websockets' =
                  [c \in Codes |->
                      IF c \in CloseRequested(selected_currencies, new_selection)
                      THEN close_from_main_thread(websockets[c])
                      ELSE websockets[c]]
            /\ selected_currencies' = new_selection
            /\ display' = update_price_labels(new_selection)
            /\ settings_file' = save_settings(settings_file, new_selection, io)
            /\ start_websocket_connections(new_selection)
            /\ UNCHANGED <<currency_data, running, phase, pending>>
       ELSE /\ io = "ok"
            /\ UNCHANGED <<settings_file, selected_currencies, currency_data,
                           running, websockets, reconnect_attempts, threads,
                           phase, failed, gui>>
    /\ UNCHANGED has_closed

\* monitor = BTCTaskbarMonitor() (line 575) in a new process, after the
\* application was quit: every field is set as by lines 16-48, with the
\* settings file as the last session left it
BTCTaskbarMonitor ==
    /\ phase = "quit"
    /\ selected_currencies' = load_settings(settings_file)
    /\ currency_data' = [c \in Codes |->
           [price |-> Loading, price_change |-> 0, change_24h |-> 0]]
    /\ running' = TRUE
    /\ websockets' = [c \in Codes |-> "none"]
    /\ reconnect_attempts' = [c \in Codes |-> NoKey]
    /\ threads' = [t \in Threads |-> FreeThread]
    /\ phase' = "init"
    /\ uiOps' = 0
    /\ pending' = [c \in Codes |-> 0]
    /\ display' = update_price_labels(load_settings(settings_file))
    /\ failed' = [c \in Codes |-> FALSE]
    /\ UNCHANGED settings_file
    /\ UNCHANGED has_closed

\* a reconnect that starts a thread only where start_websocket_connections
\* would
ReconnectLoop_OnlyClosed(sel, att, thr) == StartLoop(sel, att, thr)

\* the loop of reconnect (lines 479-481) over the list sel
RECURSIVE ReconnectLoop(_, _, _)
ReconnectLoop(sel, att, thr) ==
    IF sel = <<>> THEN [att |-> att, thr |-> thr]
    ELSE ReconnectLoop(Tail(sel), [att EXCEPT ![Head(sel)] = 0],
                       start_websocket_thread(thr, Head(sel)))

\* reconnect (lines 476-481), the "Reconnect" menu entry
reconnect ==
    /\ phase = "mainloop"
    /\ uiOps < MaxUiOps
    /\ uiOps' = uiOps + 1
    /\ Len(selected_currencies) <= Cardinality(FreeSlots(threads))
    /\ LET r == ReconnectLoop(selected_currencies, reconnect_attempts, threads)
       IN  /\ reconnect_attempts' = r.att
           /\ threads' = r.thr
    /\ failed' = [c \in Codes |->
           IF c \in Range(selected_currencies) THEN FALSE ELSE failed[c]]
    /\ UNCHANGED <<settings_file, selected_currencies, currency_data,
                   running, websockets, phase, gui>>
    /\ UNCHANGED has_closed

\* quit_application (lines 543-555); root.destroy() destroys the labels,
\* and what root.after had scheduled is never run
quit_application ==
    /\ phase = "mainloop"
    /\ running' = FALSE
    /\ websockets' = [c \in Codes |-> close_from_main_thread(websockets[c])]
    /\ phase' = "quit"
    /\ pending' = [c \in Codes |-> 0]
    /\ display' = [c \in Codes |-> NoLabel]
    /\ UNCHANGED <<settings_file, selected_currencies, currency_data,
                   reconnect_attempts, threads, uiOps, failed>>
    /\ UNCHANGED has_closed

\* update_price_display(c), lines 382-396: Tk runs a scheduled call; the
\* handler returns when c has no label, else it reads price_change for
\* the colour and the arrow
update_price_display(c) ==
    /\ phase = "mainloop"
    /\ pending[c] > 0
    /\ pending' = [pending EXCEPT ![c] = @ - 1]
    /\ IF display[c].shown = "none"
       THEN UNCHANGED <<display, phase>>
       ELSE /\ display' = [display EXCEPT
                   ![c].price_change = currency_data[c].price_change,
                   ![c].arrow = arrow(currency_data[c].price_change),
                   ![c].busy = TRUE]
            /\ phase' = "display"
    /\ UNCHANGED <<settings_file, selected_currencies, currency_data,
                   running, websockets, reconnect_attempts, threads, uiOps,
                   failed>>
    /\ UNCHANGED has_closed

\* update_price_display(c), lines 398-402: the label is given the text
\* made of price and change_24h, read now, and the colour and the arrow
\* chosen before
config_label(c) ==
    /\ phase = "display"
    /\ display[c].busy
    /\ display' = [display EXCEPT ![c] =
           [shown |-> "data", price |-> currency_data[c].price,
            price_change |-> display[c].price_change,
            arrow |-> display[c].arrow,
            change_24h |-> currency_data[c].change_24h, busy |-> FALSE]]
    /\ phase' = "mainloop"
    /\ UNCHANGED <<settings_file, selected_currencies, currency_data,
                   running, websockets, reconnect_attempts, threads, uiOps,
                   pending, failed>>
    /\ UNCHANGED has_closed

----------------------------------------------------------------------------
(* connect_binance_websocket(currency), run by thread t *)

\* a test that takes every symbol for selected
Selected_Always(c) == c \in Codes

\* "currency in self.selected_currencies" (lines 418 and 455)
Selected(c) == c \in Range(selected_currencies)

\* leaving "async with websockets.connect(uri) as websocket": the
\* websocket of thread t is closed; self.websockets[cur] shows it when it
\* still holds that object
CloseOwn(t) ==
    websockets' =
        IF threads[t].reg
        THEN [websockets EXCEPT ![threads[t].cur] = "closed"]
        ELSE websockets

\* a connection made with the counter left as it is
Connected_NoReset(t) ==
    LET c == threads[t].cur IN
    /\ threads[t].pc = "connect"
    /\ websockets' = [websockets EXCEPT ![c] = "open"]
    /\ threads' = [u \in Threads |->
           IF u = t THEN [threads[t] EXCEPT !.pc = "recv", !.reg = TRUE]
           ELSE IF threads[u].cur = c THEN [threads[u] EXCEPT !.reg = FALSE]
           ELSE threads[u]]
    /\ UNCHANGED <<settings_file, selected_currencies, currency_data,
                   running, reconnect_attempts, phase, uiOps, failed, gui>>
    /\ UNCHANGED has_closed

\* lines 411-414: the connection is made; the websocket is stored and the
\* counter reset
Connected(t) ==
    LET c == threads[t].cur IN
    /\ threads[t].pc = "connect"
    /\ websockets' = [websockets EXCEPT ![c] = "open"]
    /\ reconnect_attempts' = [reconnect_attempts EXCEPT ![c] = 0]
    /\ threads' = [u \in Threads |->
           IF u = t THEN [threads[t] EXCEPT !.pc = "recv", !.reg = TRUE]
           ELSE IF threads[u].cur = c THEN [threads[u] EXCEPT !.reg = FALSE]
           ELSE threads[u]]
    /\ UNCHANGED <<settings_file, selected_currencies, currency_data,
                   running, phase, uiOps, failed, gui>>
    /\ UNCHANGED has_closed

\* websockets.connect raises (line 411): to the handler of line 453
ConnectFailed(t) ==
    /\ threads[t].pc = "connect"
    /\ threads' = [threads EXCEPT ![t].pc = "except"]
    /\ UNCHANGED <<settings_file, selected_currencies, currency_data,
                   running, websockets, reconnect_attempts, phase, uiOps,
                   failed, gui>>
    /\ UNCHANGED has_closed

\* a turn of the loop that stores the price as soon as c is parsed,
\* before P is
OnMessage_StoreFirst(t, message) ==
    LET c == threads[t].cur IN
    /\ threads[t].pc = "recv"
    /\ IF ~running \/ ~Selected(c)
       THEN /\ CloseOwn(t)
            /\ threads' = [threads EXCEPT ![t] = FreeThread]
            /\ UNCHANGED currency_data
       ELSE IF DecodeError(message) = "none"
       THEN /\ currency_data' = [currency_data EXCEPT
                   ![c].price = formatted_price(message.c.v)]
            /\ threads' = [threads EXCEPT ![t].pc = "price_change",
                                          ![t].tmp = message.P.v]
            /\ UNCHANGED websockets
       ELSE IF DecodeError(message) \in CaughtPerMessage
       THEN /\ currency_data' =
                  IF message.kind = "object" /\ FieldError(message.c) = "none"
                  THEN [currency_data EXCEPT
                           ![c].price = formatted_price(message.c.v)]
                  ELSE currency_data
            /\ UNCHANGED <<websockets, threads>>
       ELSE /\ CloseOwn(t)
            /\ threads' = [threads EXCEPT ![t].pc = "except"]
            /\ UNCHANGED currency_data
    /\ UNCHANGED <<settings_file, selected_currencies, running,
                   reconnect_attempts, phase, uiOps, failed, gui>>
    /\ UNCHANGED has_closed

\* one turn of "async for message in websocket" (lines 417-438 and
\* 449-451): the message is received and decoded; when it decodes, the
\* formatted price is stored (line 438) and price_change is still a local
OnMessage(t, message) ==
    LET c == threads[t].cur IN
    /\ threads[t].pc = "recv"
    /\ IF ~running \/ ~Selected(c)
       THEN \* break: the coroutine returns, the websocket is closed
            /\ CloseOwn(t)
            /\ threads' = [threads EXCEPT ![t] = FreeThread]
            /\ UNCHANGED currency_data
       ELSE IF DecodeError(message) = "none"
       THEN /\ currency_data' = [currency_data EXCEPT
                   ![c].price = formatted_price(message.c.v)]
            /\ threads' = [threads EXCEPT ![t].pc = "price_change",
                                          ![t].tmp = message.P.v]
            /\ UNCHANGED websockets
       ELSE IF DecodeError(message) \in CaughtPerMessage
       THEN UNCHANGED <<currency_data, websockets, threads>>
       ELSE \* the exception leaves the loop and the async with
            /\ CloseOwn(t)
            /\ threads' = [threads EXCEPT ![t].pc = "except"]
            /\ UNCHANGED currency_data
    /\ UNCHANGED <<settings_file, selected_currencies, running,
                   reconnect_attempts, phase, uiOps, failed, gui>>
    /\ UNCHANGED has_closed

\* line 439: self.currency_data[currency]['price_change'] = price_change
StorePriceChange(t) ==
    /\ threads[t].pc = "price_change"
    /\ currency_data' = [currency_data EXCEPT
           ![threads[t].cur].price_change = threads[t].tmp]
    /\ threads' = [threads EXCEPT ![t].pc = "change_24h"]
    /\ UNCHANGED <<settings_file, selected_currencies, running, websockets,
                   reconnect_attempts, phase, uiOps, failed, gui>>
    /\ UNCHANGED has_closed

\* self.root.after(0, update_price_display) called by a connection
\* thread for symbol c while the root window exists
root_after(c) ==
    /\ pending[c] < MaxPending
    /\ pending' = [pending EXCEPT ![c] = @ + 1]

\* lines 440-443: change_24h is stored and the display update scheduled;
\* once quit_application has destroyed the root window root.after raises,
\* and the exception leaves the loop and the async with
StoreChange24h(t) ==
    LET c == threads[t].cur IN
    /\ threads[t].pc = "change_24h"
    /\ currency_data' = [currency_data EXCEPT ![c].change_24h = threads[t].tmp]
    /\ IF phase = "quit"
       THEN /\ CloseOwn(t)
            /\ threads' = [threads EXCEPT ![t].pc = "except", ![t].tmp = 0]
            /\ UNCHANGED pending
       ELSE /\ root_after(c)
            /\ threads' = [threads EXCEPT ![t].pc = "recv", ![t].tmp = 0]
            /\ UNCHANGED websockets
    /\ UNCHANGED <<settings_file, selected_currencies, running,
                   reconnect_attempts, phase, uiOps, failed, display>>
    /\ UNCHANGED has_closed

\* the transport fails while receiving: the iterator raises
\* ConnectionClosedError (or another exception)
ReceiveFailed(t) ==
    /\ threads[t].pc = "recv"
    /\ CloseOwn(t)
    /\ threads' = [threads EXCEPT ![t].pc = "except"]
    /\ UNCHANGED <<settings_file, selected_currencies, currency_data,
                   running, reconnect_attempts, phase, uiOps, failed, gui>>
    /\ UNCHANGED has_closed

\* the peer closes the stream normally (close code 1000 or 1001): the
\* iterator of "async for" ends, the loop is left without an exception
\* and the coroutine returns
PeerClosed(t) ==
    /\ threads[t].pc = "recv"
    /\ CloseOwn(t)
    /\ threads' = [threads EXCEPT ![t] = FreeThread]
    /\ UNCHANGED <<settings_file, selected_currencies, currency_data,
                   running, reconnect_attempts, phase, uiOps, failed, gui>>
    /\ UNCHANGED has_closed

\* a condition that does not look at the counter
MayRetry_NoLimit(c) ==
    /\ running
    /\ Selected(c)

\* the condition with the counter raised before it is compared
MayRetry_IncrementFirst(c) ==
    /\ running
    /\ Selected(c)
    /\ AttemptsGet(reconnect_attempts, c) + 1 < max_reconnect_attempts

\* the condition of lines 455-456
MayRetry(c) ==
    /\ running
    /\ Selected(c)
    /\ AttemptsGet(reconnect_attempts, c) < max_reconnect_attempts

\* a handler that marks every symbol when one has no retry left
HandleException_AllSymbols(t) ==
    LET c == threads[t].cur IN
    /\ threads[t].pc = "except"
    /\ IF MayRetry(c)
       THEN /\ threads' = [threads EXCEPT ![t].pc = "incr"]
            /\ UNCHANGED <<currency_data, failed, pending>>
       ELSE /\ currency_data' = [d \in Codes |->
                   [currency_data[d] EXCEPT !.price = Error]]
            /\ IF phase = "quit" THEN UNCHANGED pending ELSE root_after(c)
            /\ threads' = [threads EXCEPT ![t] = FreeThread]
            /\ failed' = [failed EXCEPT ![c] = @ \/ (running /\ Selected(c))]
    /\ UNCHANGED <<settings_file, selected_currencies, running, websockets,
                   reconnect_attempts, phase, uiOps, display>>
    /\ UNCHANGED has_closed

\* lines 453-456 and 461-463: the handler decides; with no retry left it
\* writes "Error", schedules the display update (root.after raises once
\* the root window is destroyed) and the coroutine ends
HandleException(t) ==
    LET c == threads[t].cur IN
    /\ threads[t].pc = "except"
    /\ IF MayRetry(c)
       THEN /\ threads' = [threads EXCEPT ![t].pc = "incr"]
            /\ UNCHANGED <<currency_data, failed, pending>>
       ELSE /\ currency_data' = [currency_data EXCEPT ![c].price = Error]
            /\ IF phase = "quit" THEN UNCHANGED pending ELSE root_after(c)
            /\ threads' = [threads EXCEPT ![t] = FreeThread]
            /\ failed' = [failed EXCEPT ![c] = @ \/ (running /\ Selected(c))]
    /\ UNCHANGED <<settings_file, selected_currencies, running, websockets,
                   reconnect_attempts, phase, uiOps, display>>
    /\ UNCHANGED has_closed

\* line 457, right-hand side: self.reconnect_attempts.get(currency, 0) + 1
ReadAttempts(t) ==
    /\ threads[t].pc = "incr"
    /\ AttemptsGet(reconnect_attempts, threads[t].cur) < MaxCount
    /\ threads' = [threads EXCEPT
           ![t].pc = "store",
           ![t].tmp = AttemptsGet(reconnect_attempts, threads[t].cur) + 1]
    /\ UNCHANGED <<settings_file, selected_currencies, currency_data,
                   running, websockets, reconnect_attempts, phase, uiOps,
                   failed, gui>>
    /\ UNCHANGED has_closed

\* line 457, the store, then "await asyncio.sleep(5)"
StoreAttempts(t) ==
    /\ threads[t].pc = "store"
    /\ reconnect_attempts' =
           [reconnect_attempts EXCEPT ![threads[t].cur] = threads[t].tmp]
    /\ threads' = [threads EXCEPT ![t].pc = "sleep", ![t].tmp = 0]
    /\ UNCHANGED <<settings_file, selected_currencies, currency_data,
                   running, websockets, phase, uiOps, failed, gui>>
    /\ UNCHANGED has_closed

\* the sleep is over: line 460 calls connect_binance_websocket again
Wake(t) ==
    /\ threads[t].pc = "sleep"
    /\ threads' = [threads EXCEPT ![t].pc = "connect"]
    /\ UNCHANGED <<settings_file, selected_currencies, currency_data,
                   running, websockets, reconnect_attempts, phase, uiOps,
                   failed, gui>>
    /\ UNCHANGED has_closed

----------------------------------------------------------------------------

\* what the user ticks in the dialog before "Apply"
TickedChoices == SUBSET {"BTC", "ETH"}

\* what the file system does to a save in Spec
SaveOutcomes == {"ok"}

\* The application: the main thread and the connection threads, in any
\* interleaving
Next ==
    \/ Run /\ UNCHANGED history
    \/ /\ \E ticked \in TickedChoices, io \in SaveOutcomes :
              apply_currency_selection(ticked, io)
       /\ UNCHANGED history
    \/ reconnect /\ UNCHANGED history
    \/ quit_application /\ UNCHANGED history
    \/ \E c \in Codes : update_price_display(c) /\ UNCHANGED history
    \/ \E c \in Codes : config_label(c) /\ UNCHANGED history
    \/ \E t \in Threads : Connected(t) /\ UNCHANGED history
    \/ \E t \in Threads : ConnectFailed(t) /\ UNCHANGED history
    \/ \E t \in Threads, message \in Messages :
           OnMessage(t, message) /\ UNCHANGED history
    \/ \E t \in Threads : StorePriceChange(t) /\ UNCHANGED history
    \/ \E t \in Threads : StoreChange24h(t) /\ UNCHANGED history
    \/ \E t \in Threads : ReceiveFailed(t) /\ UNCHANGED history
    \/ \E t \in Threads : PeerClosed(t) /\ UNCHANGED history
    \/ \E t \in Threads : HandleException(t) /\ UNCHANGED history
    \/ \E t \in Threads : ReadAttempts(t) /\ UNCHANGED history
    \/ \E t \in Threads : StoreAttempts(t) /\ UNCHANGED history
    \/ \E t \in Threads : Wake(t) /\ UNCHANGED history

Spec == Init /\ [][Next]_vars

----------------------------------------------------------------------------
(* The application started with a settings file whose list names no code  *)
(* twice (or with none): what it does then does not rest on what          *)
(* load_settings makes of a repeated code.                                *)

NoDuplicates(sel) == \A i, j \in 1..Len(sel) : sel[i] = sel[j] => i = j

InitDistinct == Init /\ NoDuplicates(selected_currencies)

SpecDistinct == InitDistinct /\ [][Next]_vars

----------------------------------------------------------------------------
(* The retry scenario: started with one or with two symbols selected,      *)
(* run() starts one connection per selected symbol, and from then on only  *)
(* the transport and the display act (no menu entry is used).  fails[c]    *)
(* counts the failures the connection of c handles in a row: a successful  *)
(* connection sets it back to 0.                                           *)

RetryFiles == { FileOf("missing", <<>>), FileOf("list", <<"ETH", "BTC">>) }

InitRetry == InitOf(RetryFiles)

\* the history of a connection made by thread t: the counter it found
NoteReset(t) ==
    last' = StepOf("connected",
                   AttemptsGet(reconnect_attempts, threads[t].cur))

\* the history of a handled failure of thread t
CountFailure(t) ==
    fails' = [fails EXCEPT ![threads[t].cur] =
                 IF @ < MaxFails THEN @ + 1 ELSE @]

NextRetry ==
    \/ Run /\ UNCHANGED history
    \/ \E c \in Codes : update_price_display(c) /\ UNCHANGED history
    \/ \E c \in Codes : config_label(c) /\ UNCHANGED history
    \/ \E t \in Threads :
           /\ Connected(t)
           /\ fails' = [fails EXCEPT ![threads[t].cur] = 0]
           /\ NoteReset(t)
    \/ \E t \in Threads : ConnectFailed(t) /\ UNCHANGED history
    \/ \E t \in Threads, message \in Messages :
           OnMessage(t, message) /\ UNCHANGED history
    \/ \E t \in Threads : StorePriceChange(t) /\ UNCHANGED history
    \/ \E t \in Threads : StoreChange24h(t) /\ UNCHANGED history
    \/ \E t \in Threads : ReceiveFailed(t) /\ UNCHANGED history
    \/ \E t \in Threads : PeerClosed(t) /\ UNCHANGED history
    \/ \E t \in Threads :
           HandleException(t) /\ CountFailure(t) /\ UNCHANGED last
    \/ \E t \in Threads : ReadAttempts(t) /\ UNCHANGED history
    \/ \E t \in Threads : StoreAttempts(t) /\ UNCHANGED history
    \/ \E t \in Threads : Wake(t) /\ UNCHANGED history

SpecRetry == InitRetry /\ [][NextRetry]_vars


----------------------------------------------------------------------------
(* The selection and its file, over sessions: the application is started   *)
(* on any settings file, the user applies a selection, whose save may      *)
(* fail, quits, and starts the application again.  Of the transport, a     *)
(* connection is made and the peer closes it.                              *)

\* what the user ticks: up to three of the first three codes, or four
SettingsTicked ==
    SUBSET {"BTC", "ETH", "BNB"} \cup {{"BTC", "ETH", "BNB", "TRX"}}

InitSettings == InitOf(SettingsFiles)

\* the history of apply_currency_selection: what became of the selection
\* and how many codes were ticked
NoteApply(ticked, io) ==
    last' = StepOf(IF Len(SelectionOf(ticked)) \notin MinSelected..MaxSelected
                   THEN "rejected"
                   ELSE IF io = "ok" THEN "saved" ELSE "save_failed",
                   Len(SelectionOf(ticked)))

\* the history of a start of the application: whether the session before
\* it ended with the selection saved
NoteStart ==
    last' = IF last.op = "saved" THEN StepOf("reloaded", last.arg) ELSE NoStep

NextSettings ==
    \/ Run /\ UNCHANGED history
    \/ \E ticked \in SettingsTicked, io \in IoOutcomes :
           /\ apply_currency_selection(ticked, io)
           /\ NoteApply(ticked, io)
           /\ UNCHANGED fails
    \/ quit_application /\ UNCHANGED history
    \/ BTCTaskbarMonitor /\ NoteStart /\ UNCHANGED fails
    \/ \E t \in Threads : Connected(t) /\ UNCHANGED history
    \/ \E t \in Threads : PeerClosed(t) /\ UNCHANGED history

SpecSettings == InitSettings /\ [][NextSettings]_vars

----------------------------------------------------------------------------
(* The "Reconnect" menu entry: the application started at its first run,   *)
(* the transport and the display acting, and the user choosing Reconnect   *)
(* at any moment.                                                          *)

\* the history of reconnect: the number of connection threads that were
\* running when it was chosen
NoteReconnect ==
    last' = StepOf("reconnect",
                   Cardinality({t \in Threads : threads[t].pc \in LivePcs}))

NextReconnect ==
    \/ Run /\ UNCHANGED history
    \/ reconnect /\ NoteReconnect /\ UNCHANGED fails
    \/ \E c \in Codes : update_price_display(c) /\ UNCHANGED history
    \/ \E c \in Codes : config_label(c) /\ UNCHANGED history
    \/ \E t \in Threads : Connected(t) /\ UNCHANGED history
    \/ \E t \in Threads : ConnectFailed(t) /\ UNCHANGED history
    \/ \E t \in Threads, message \in Messages :
           OnMessage(t, message) /\ UNCHANGED history
    \/ \E t \in Threads : StorePriceChange(t) /\ UNCHANGED history
    \/ \E t \in Threads : StoreChange24h(t) /\ UNCHANGED history
    \/ \E t \in Threads : ReceiveFailed(t) /\ UNCHANGED history
    \/ \E t \in Threads : PeerClosed(t) /\ UNCHANGED history
    \/ \E t \in Threads : HandleException(t) /\ UNCHANGED history
    \/ \E t \in Threads : ReadAttempts(t) /\ UNCHANGED history
    \/ \E t \in Threads : StoreAttempts(t) /\ UNCHANGED history
    \/ \E t \in Threads : Wake(t) /\ UNCHANGED history

SpecReconnect == InitDistinct /\ [][NextReconnect]_vars

----------------------------------------------------------------------------
(* The ticks of one symbol: the application started at its first run, its  *)
(* connection made, and a feed of tickers that decode; the connection      *)
(* thread stores each tick and the main thread displays it.                *)

\* a ticker with last price c (in PriceUnit-ths) and 24 hour change P (in
\* hundredths of a percent)
Ticker(c, P) == MsgOf("object", Num(c), Num(P))

\* prices in every range of the format and at each of its limits:
\* 0.0514, 9.99999, 10, 99.9999, 100, 9999.999, 10000, 12345.67, and a
\* price (50) that has not changed in 24 hours
TickMessages ==
    { Ticker(5140, 150), Ticker(999999, -25), Ticker(1000000, 150),
      Ticker(5000000, 0),
      Ticker(9999990, -25), Ticker(10000000, 150),
      Ticker(999999900, -25), Ticker(1000000000, 150),
      Ticker(1234567000, -25) }

\* the history of a message: the price of the ticker stored
NoteTick(t, message) ==
    last' = IF running /\ Selected(threads[t].cur)
               /\ DecodeError(message) = "none"
            THEN StepOf("tick", message.c.v)
            ELSE last

NextTick ==
    \/ Run /\ UNCHANGED history
    \/ \E c \in Codes : update_price_display(c) /\ UNCHANGED history
    \/ \E c \in Codes : config_label(c) /\ UNCHANGED history
    \/ \E t \in Threads : Connected(t) /\ UNCHANGED history
    \/ \E t \in Threads, message \in TickMessages :
           OnMessage(t, message) /\ NoteTick(t, message) /\ UNCHANGED fails
    \/ \E t \in Threads : StorePriceChange(t) /\ UNCHANGED history
    \/ \E t \in Threads : StoreChange24h(t) /\ UNCHANGED history

SpecTick == InitDistinct /\ [][NextTick]_vars

----------------------------------------------------------------------------
(* The feed out of reach: the application started with one or with two     *)
(* symbols selected, every websockets.connect raises, and no menu entry    *)
(* is used.  A connection thread that can take a step takes one: the       *)
(* operating system schedules it, the connect attempt returns or raises,   *)
(* and the sleep of 5 seconds ends.                                        *)

\* the steps of connection thread t when no connection can be made
FailingStep(t) ==
    \/ ConnectFailed(t) /\ UNCHANGED history
    \/ HandleException(t) /\ CountFailure(t) /\ UNCHANGED last
    \/ ReadAttempts(t) /\ UNCHANGED history
    \/ StoreAttempts(t) /\ UNCHANGED history
    \/ Wake(t) /\ UNCHANGED history

NextOffline ==
    \/ Run /\ UNCHANGED history
    \/ \E c \in Codes : update_price_display(c) /\ UNCHANGED history
    \/ \E c \in Codes : config_label(c) /\ UNCHANGED history
    \/ \E t \in Threads : ConnectFailed(t) /\ UNCHANGED history
    \/ \E t \in Threads :
           HandleException(t) /\ CountFailure(t) /\ UNCHANGED last
    \/ \E t \in Threads : ReadAttempts(t) /\ UNCHANGED history
    \/ \E t \in Threads : StoreAttempts(t) /\ UNCHANGED history
    \/ \E t \in Threads : Wake(t) /\ UNCHANGED history

SpecOffline ==
    /\ InitRetry
    /\ [][NextOffline]_vars
    /\ \A t \in Threads : WF_vars(FailingStep(t))

----------------------------------------------------------------------------
(* The messages of one symbol, good and bad: the application started at    *)
(* its first run, its connection made, and a feed of two tickers and of    *)
(* messages that do not decode; a message whose exception leaves the loop  *)
(* makes the connection retry.                                             *)

DecodeMessages == Messages \cup {Ticker(5140, 150)}

\* the history of a message received while running, the symbol selected:
\* the price of a ticker stored, or a message that did not decode (0: its
\* exception is caught at line 449, 1: it is not)
NoteDecode(t, message) ==
    last' = IF ~(running /\ Selected(threads[t].cur)) THEN last
            ELSE IF DecodeError(message) = "none"
            THEN StepOf("tick", message.c.v)
            ELSE StepOf("dropped",
                        IF DecodeError(message) \in CaughtPerMessage
                        THEN 0 ELSE 1)

NextDecode ==
    \/ Run /\ UNCHANGED history
    \/ \E c \in Codes : update_price_display(c) /\ UNCHANGED history
    \/ \E c \in Codes : config_label(c) /\ UNCHANGED history
    \/ \E t \in Threads : Connected(t) /\ UNCHANGED history
    \/ \E t \in Threads, message \in DecodeMessages :
           OnMessage(t, message) /\ NoteDecode(t, message) /\ UNCHANGED fails
    \/ \E t \in Threads : StorePriceChange(t) /\ UNCHANGED history
    \/ \E t \in Threads : StoreChange24h(t) /\ UNCHANGED history
    \/ \E t \in Threads : HandleException(t) /\ UNCHANGED history
    \/ \E t \in Threads : ReadAttempts(t) /\ UNCHANGED history
    \/ \E t \in Threads : StoreAttempts(t) /\ UNCHANGED history
    \/ \E t \in Threads : Wake(t) /\ UNCHANGED history

SpecDecode == InitDistinct /\ [][NextDecode]_vars

----------------------------------------------------------------------------
(* A symbol removed while it streams: the application started at its      *)
(* first run, its connection made and tickers stored, and the user         *)
(* applying another selection; the feed goes on sending tickers and, now   *)
(* and then, a message that is not JSON.                                   *)

RemoveMessages == {Ticker(5140, 150), MsgOf("notjson", Absent, Absent)}

\* the history of a message: it was received by the connection of a
\* symbol that is no longer selected (0: a ticker, 1: a message that does
\* not decode)
NoteStop(t, message) ==
    last' = IF running /\ threads[t].cur \notin Range(selected_currencies)
            THEN StepOf("stopped",
                        IF DecodeError(message) = "none" THEN 0 ELSE 1)
            ELSE last

NextRemove ==
    \/ Run /\ UNCHANGED history
    \/ /\ \E ticked \in TickedChoices, io \in SaveOutcomes :
              apply_currency_selection(ticked, io)
       /\ UNCHANGED history
    \/ \E c \in Codes : update_price_display(c) /\ UNCHANGED history
    \/ \E c \in Codes : config_label(c) /\ UNCHANGED history
    \/ \E t \in Threads : Connected(t) /\ UNCHANGED history
    \/ \E t \in Threads, message \in RemoveMessages :
           OnMessage(t, message) /\ NoteStop(t, message) /\ UNCHANGED fails
    \/ \E t \in Threads : StorePriceChange(t) /\ UNCHANGED history
    \/ \E t \in Threads : StoreChange24h(t) /\ UNCHANGED history

SpecRemove == InitDistinct /\ [][NextRemove]_vars

----------------------------------------------------------------------------
(* Vocabulary of the properties *)

\* the running threads of symbol c: its connection contexts
LiveThreadsOf(c) ==
    {t \in Threads : threads[t].pc \in LivePcs /\ threads[t].cur = c}

\* the threads this step starts for symbol c
StartedFor(c) ==
    {t \in Threads : /\ threads[t].pc = "free"
                     /\ threads'[t].pc = "connect"
                     /\ threads'[t].cur = c}

\* this step is apply_currency_selection with an accepted selection
AppliesSelection(ticked) ==
    /\ Len(SelectionOf(ticked)) \in MinSelected..MaxSelected
    /\ \E io \in SaveOutcomes : apply_currency_selection(ticked, io)

\* this step runs start_websocket_connections
StartsConnections ==
    Run \/ \E ticked \in TickedChoices : AppliesSelection(ticked)

----------------------------------------------------------------------------
(* C1 .. C10 *)

\* C1: apply_currency_selection acts on the set difference only: it starts
\* a connection for exactly the symbols of new \ old, asks no symbol
\* outside old \ new to stop, and for a symbol in both it starts no
\* thread and leaves the reconnect counter alone, whatever state that
\* symbol's connection is in.  (The claim also says every connection of
\* old \ new is stopped; what is stated here follows from the claim.)
C1_ApplyIsSetDifference ==
    [][\A ticked \in TickedChoices :
          AppliesSelection(ticked) =>
             LET old == Range(selected_currencies)
                 new == ticked
             IN  /\ \A c \in Codes : (StartedFor(c) # {}) <=> (c \in new \ old)
                 /\ CloseRequested(selected_currencies, SelectionOf(ticked))
                        \subseteq old \ new
                 /\ \A c \in old \cap new :
                        reconnect_attempts'[c] = reconnect_attempts[c]
      ]_vars

\* C2: selected_currencies always has 1 to 3 entries, each a key of
\* available_currencies, none twice.
C2_SelectionValid ==
    /\ Len(selected_currencies) \in MinSelected..MaxSelected
    /\ Range(selected_currencies) \subseteq Codes
    /\ NoDuplicates(selected_currencies)

\* C3: reconnect_attempts[c] never exceeds max_reconnect_attempts.
C3_AttemptsBounded ==
    \A c \in Codes :
        AttemptsGet(reconnect_attempts, c) <= max_reconnect_attempts

\* C4: once the connection of c is Failed, no connection attempt for c
\* begins unless a start is called for c: a thread that enters "connect"
\* for c is one the main thread has just started.
C4_FailedUntilStart ==
    [][\A c \in Codes : \A t \in Threads :
          ( /\ failed[c]
            /\ threads'[t].cur = c
            /\ threads'[t].pc = "connect"
            /\ threads[t].pc # "connect" )
          => threads[t].pc = "free"
      ]_vars

\* C5, as claimed: once the connection of a selected symbol, started with
\* counter 0, has handled 5 failures in a row, it is Failed, the price is
\* "Error" and no thread of the symbol goes on.
C5_FailedAfterFive ==
    \A c \in Codes :
        fails[c] >= 5 =>
            /\ failed[c]
            /\ currency_data[c].price = Error
            /\ LiveThreadsOf(c) = {}

\* C5, amended: it is the 6th failure in a row that makes the connection
\* Failed (price "Error", no thread left); up to the 5th it is not Failed
\* and the price is no "Error"; after the 5th the thread lives on, and
\* waits and reconnects with the counter at 5.
C5_FailedAfterSix ==
    \A c \in Codes :
        /\ fails[c] >= 6 =>
              /\ failed[c]
              /\ currency_data[c].price = Error
              /\ LiveThreadsOf(c) = {}
        /\ fails[c] <= 5 =>
              /\ ~failed[c]
              /\ currency_data[c].price # Error
        /\ fails[c] = 5 =>
              /\ LiveThreadsOf(c) # {}
              /\ \A t \in LiveThreadsOf(c) :
                     threads[t].pc \in {"sleep", "connect"} =>
                         reconnect_attempts[c] = max_reconnect_attempts

\* the 6th failure in a row has been handled
C5_Witness ==
    \E c \in Codes :
        /\ fails[c] = 6
        /\ failed[c]
        /\ currency_data[c].price = Error
        /\ LiveThreadsOf(c) = {}

\* C6: while the application runs and the symbol is selected, a
\* connection that is Connecting or Streaming does not simply end when
\* its transport ends: it goes to the failure handler (to retry or to
\* fail).
C6_TransportEndIsHandled ==
    [][\A t \in Threads :
          ( /\ threads[t].pc \in {"connect", "recv"}
            /\ running
            /\ Selected(threads[t].cur) )
          => threads'[t].pc # "free"
      ]_vars

\* C7: a message that does not decode is dropped: the thread stays in the
\* receive loop, its websocket stays open and the counter is unchanged.
C7_BadMessageDropped ==
    [][\A t \in Threads : \A message \in Messages :
          ( /\ OnMessage(t, message)
            /\ DecodeError(message) # "none"
            /\ running
            /\ Selected(threads[t].cur) )
          => /\ threads'[t].pc = "recv"
             /\ websockets' = websockets
             /\ reconnect_attempts' = reconnect_attempts
      ]_vars

\* C8: a connection that is in its retry wait when its symbol has been
\* removed from the selection, or the application has shut down, opens no
\* new transport when the wait is over.
C8_StopCancelsRetry ==
    [][\A t \in Threads :
          ( /\ threads[t].pc = "sleep"
            /\ (~running \/ ~Selected(threads[t].cur)) )
          => threads'[t].pc # "connect"
      ]_vars

\* C9: each symbol has at most one live connection context.
C9_OneConnectionPerSymbol ==
    \A c \in Codes : Cardinality(LiveThreadsOf(c)) <= 1

\* C10: start_websocket_connections starts no thread for, and leaves the
\* counter of, a selected symbol whose connection is Connecting or
\* Streaming.
C10_StartIsIdempotent ==
    [][StartsConnections =>
          \A c \in Range(selected_currencies') :
              (\E t \in LiveThreadsOf(c) : threads[t].pc \in {"connect", "recv"})
              => /\ StartedFor(c) = {}
                 /\ reconnect_attempts'[c] = reconnect_attempts[c]
      ]_vars

----------------------------------------------------------------------------
(* C11 .. C20 *)

\* C11: apply_currency_selection with no code ticked, or with more than 3,
\* changes nothing: the selection, the settings file, the threads, the
\* stored websockets, the counters and the labels are as before.
C11_RejectedNoMutation ==
    [][(uiOps' # uiOps /\ last'.op = "rejected")
          => UNCHANGED <<selected_currencies, settings_file, threads,
                         websockets, reconnect_attempts, currency_data,
                         running, display, phase>>
      ]_vars

\* a selection of more than 3 codes has been rejected
C11_Witness ==
    /\ last.op = "rejected"
    /\ last.arg > MaxSelected
    /\ uiOps = 1
    /\ phase = "mainloop"

\* the codes of the list l that the catalog knows, in the order of l
KnownOf(l) == FilterSeq(l, Codes)

\* the first n elements of the list l (all of it when it is shorter)
FirstOf(l, n) == SubSeq(l, 1, Min({Len(l), n}))

\* the state is the one the constructor leaves
JustLoaded == phase = "init"

\* C12, as claimed: after load_settings, the selection is the default
\* ['BTC'] whenever the file is missing or not parsable, or its list is
\* empty or holds a code the catalog does not know.
C12_DefaultOnInvalid ==
    ( /\ JustLoaded
      /\ \/ settings_file.kind # "list"
         \/ settings_file.sel = <<>>
         \/ ~(Range(settings_file.sel) \subseteq Codes) )
    => selected_currencies = <<"BTC">>

\* C12, amended: load_settings always returns (it is a total function of
\* the file); the selection is the default ['BTC'] when the file is
\* missing, not parsable or not of the expected shape, or its list holds
\* no code of the catalog; a list that holds codes of the catalog among
\* unknown ones gives those codes, in the order of the file, the first 3
\* of them.
C12_DefaultOrKnownCodes ==
    JustLoaded =>
        IF settings_file.kind = "list" /\ KnownOf(settings_file.sel) # <<>>
        THEN selected_currencies = FirstOf(KnownOf(settings_file.sel), MaxSelected)
        ELSE selected_currencies = <<"BTC">>

\* a file with a known and an unknown code has been loaded: the known code
\* is the selection
C12_Witness ==
    /\ JustLoaded
    /\ settings_file = FileOf("list", <<"ETH", UnknownCode>>)
    /\ selected_currencies = <<"ETH">>

\* C13: when the application is started after a session whose last apply
\* saved the selection without an I/O error, load_settings gives that
\* selection back: the same codes in the same order.
C13_SaveLoadRoundTrip ==
    [][(phase = "quit" /\ phase' = "init" /\ last.op = "saved")
          => selected_currencies' = selected_currencies
      ]_vars

\* a selection of two codes has been saved and loaded again
C13_Witness ==
    /\ last.op = "reloaded"
    /\ last.arg = 2
    /\ JustLoaded
    /\ Len(selected_currencies) = 2

\* C14: when the save of apply_currency_selection fails (open() or the
\* write raises), the handler still completes: the selection is the new
\* one, and every newly added symbol has a connection started (or still
\* has an open websocket from before).
C14_SaveFailureNoRollback ==
    [][uiOps' = uiOps + 1 =>
       \A ticked \in SettingsTicked : \A io \in IoOutcomes \ {"ok"} :
          ( /\ Len(SelectionOf(ticked)) \in MinSelected..MaxSelected
            /\ apply_currency_selection(ticked, io) )
          => /\ selected_currencies' = SelectionOf(ticked)
             /\ phase' = "mainloop"
             /\ \A c \in ticked \ Range(selected_currencies) :
                    StartedFor(c) # {} \/ websockets[c] = "open"
      ]_vars

\* a save has failed, the file does not hold the selection, and the
\* symbol newly selected has its connection thread
C14_Witness ==
    /\ last.op = "save_failed"
    /\ selected_currencies = <<"ETH">>
    /\ settings_file # FileOf("list", selected_currencies)
    /\ LiveThreadsOf("ETH") # {}

\* C15: every write of "Error" to currency_data[c]['price'] (the handler
\* ending its thread) is made with reconnect_attempts[c] equal to
\* max_reconnect_attempts.
C15_ErrorOnlyAtLimit ==
    [][\A t \in Threads :
          ( /\ threads[t].pc = "except"
            /\ threads'[t].pc = "free"
            /\ currency_data'[threads[t].cur].price = Error )
          => AttemptsGet(reconnect_attempts, threads[t].cur)
                 = max_reconnect_attempts
      ]_vars

\* C16: a step of the connection thread of symbol c (a failure, a message
\* that does not decode, a retry, the terminal failure, or any other)
\* leaves the data, the counter, the websocket, the threads and the label
\* of every other symbol d as they are, and does not stop the application.
C16_OtherSymbolsUntouched ==
    [][\A t \in Threads :
          (threads[t].pc \in LivePcs /\ threads'[t] # threads[t])
          => /\ running' = running
             /\ phase' = phase
             /\ selected_currencies' = selected_currencies
             /\ \A d \in Codes \ {threads[t].cur} :
                    /\ currency_data'[d] = currency_data[d]
                    /\ reconnect_attempts'[d] = reconnect_attempts[d]
                    /\ websockets'[d] = websockets[d]
                    /\ pending'[d] = pending[d]
                    /\ display'[d] = display[d]
                    /\ \A u \in LiveThreadsOf(d) : threads'[u] = threads[u]
      ]_vars

\* the connection of ETH has failed for good while BTC streams and has a
\* price
C16_Witness ==
    /\ failed["ETH"]
    /\ currency_data["ETH"].price = Error
    /\ currency_data["BTC"].price.text = "number"
    /\ \E t \in LiveThreadsOf("BTC") : threads[t].pc = "recv"
    /\ running

\* the prices and the changes of the tickers of the feed
TickPrices == {formatted_price(m.c.v) : m \in TickMessages}
TickChanges == {m.P.v : m \in TickMessages}

\* the 24 hour change that comes with the price f in the feed
ChangeOf(f) == {m.P.v : m \in {n \in TickMessages : formatted_price(n.c.v) = f}}

\* C17: a label never shows the price of one tick with the price_change
\* (arrow and colour) or the change_24h of another tick.
C17_NoTornTick ==
    \A c \in Codes :
        (display[c].shown = "data" /\ ~display[c].busy
           /\ display[c].price \in TickPrices)
        => /\ display[c].price_change \notin TickChanges \ ChangeOf(display[c].price)
           /\ display[c].change_24h \notin TickChanges \ ChangeOf(display[c].price)

\* C18: reconnect sets the counter of every selected symbol to 0 and
\* starts a thread for it, whatever its connection is doing; the counter
\* and the websocket of a symbol outside the selection are left alone, no
\* thread is started for it, and no running thread is touched.
C18_ReconnectRestartsSelected ==
    [][(uiOps' # uiOps /\ last'.op = "reconnect")
          => /\ \A c \in Codes :
                    IF Selected(c)
                    THEN reconnect_attempts'[c] = 0 /\ StartedFor(c) # {}
                    ELSE /\ reconnect_attempts'[c] = reconnect_attempts[c]
                         /\ StartedFor(c) = {}
             /\ websockets' = websockets
             /\ \A t \in Threads :
                    threads[t].pc \in LivePcs => threads'[t] = threads[t]
      ]_vars

\* Reconnect was chosen while the connection of BTC was running, after a
\* failure had been counted: the counter is 0 again and BTC has a second
\* thread
C18_Witness ==
    /\ last.op = "reconnect"
    /\ last.arg = 1
    /\ reconnect_attempts["BTC"] = 0
    /\ Cardinality(LiveThreadsOf("BTC")) = 2
    /\ \E t \in LiveThreadsOf("BTC") : threads[t].pc = "sleep"

\* C19: the step that opens the transport sets reconnect_attempts[c] to 0,
\* and the counter never holds more than the failures handled since the
\* last successful connection.
C19_ResetOnConnect ==
    /\ [][\A t \in Threads :
             (threads[t].pc = "connect" /\ threads'[t].pc = "recv")
             => reconnect_attempts'[threads[t].cur] = 0
         ]_vars
    /\ [](\A c \in Codes : AttemptsGet(reconnect_attempts, c) <= fails[c])

\* a connection was made when the counter stood at 2 or more, and the
\* counter is 0
C19_Witness ==
    /\ last.op = "connected"
    /\ last.arg >= 2
    /\ \E t \in Threads :
           /\ threads[t].pc = "recv"
           /\ reconnect_attempts[threads[t].cur] = 0
           /\ fails[threads[t].cur] = 0

\* the number of decimals the table of the format gives for the price p
BucketOf(p) ==
    CASE p < 10 * PriceUnit                              -> 4
      [] 10 * PriceUnit <= p /\ p < 100 * PriceUnit      -> 3
      [] 100 * PriceUnit <= p /\ p < 10000 * PriceUnit   -> 2
      [] OTHER                                           -> 1

\* C20: the price stored for a ticker has the number of decimals of its
\* range; 10, 100 and 10000 have 3, 2 and 1 decimals; the range is that
\* of the price, not of the rounded output (9.99999 is stored with 4
\* decimals, as 10.0000).
C20_DecimalsByRange ==
    \A c \in Range(selected_currencies) :
        last.op = "tick" =>
            LET f == currency_data[c].price IN
            /\ f.text = "number"
            /\ f.dec = BucketOf(last.arg)
            /\ last.arg = 10 * PriceUnit => f.dec = 3 /\ f.val = 10 * 1000
            /\ last.arg = 100 * PriceUnit => f.dec = 2 /\ f.val = 100 * 100
            /\ last.arg = 10000 * PriceUnit => f.dec = 1 /\ f.val = 10000 * 10
            /\ last.arg = 999999 => f.dec = 4 /\ f.val = 10 * 10000

\* the ticker with price 9.99999 has been stored: as 10.0000
C20_Witness ==
    /\ last = StepOf("tick", 999999)
    /\ \E c \in Range(selected_currencies) :
           currency_data[c].price = [text |-> "number", dec |-> 4, val |-> 100000]

----------------------------------------------------------------------------
(* C21 .. C25 *)

\* C21: when apply_currency_selection accepts a selection, a symbol that
\* is Streaming (self.websockets holds its open websocket) and is in the
\* old and in the new selection keeps its websocket open, gets no second
\* connection thread and keeps its counter; and every newly added symbol
\* that has no connection gets a connection thread (Idle to Connecting).
C21_StreamingKept ==
    [][\A ticked \in TickedChoices :
          AppliesSelection(ticked)
          => /\ \A c \in ticked \cap Range(selected_currencies) :
                    websockets[c] = "open"
                    => /\ websockets'[c] = "open"
                       /\ StartedFor(c) = {}
                       /\ reconnect_attempts'[c] = reconnect_attempts[c]
             /\ \A c \in ticked \ Range(selected_currencies) :
                    LiveThreadsOf(c) = {} => StartedFor(c) # {}
      ]_vars

\* the ticker of TickMessages with last price p
TickOf(p) == CHOOSE m \in TickMessages : m.c.v = p

\* what lines 438-440 make of currency_data[c] for the ticker m
DataOf(m) ==
    [price |-> formatted_price(m.c.v), price_change |-> m.P.v,
     change_24h |-> m.P.v]

\* the label of a symbol whose last tick is m, once Tk has run every
\* display update: the price, the arrow and the change of m
LabelOf(m) ==
    [shown |-> "data", price |-> formatted_price(m.c.v),
     price_change |-> m.P.v,
     arrow |-> IF m.P.v >= 0 THEN "up" ELSE "down",
     change_24h |-> m.P.v, busy |-> FALSE]

\* C22: when the connection of a selected symbol has decoded a message
\* with numeric c and P (line 440 is the last of its stores), the price of
\* the symbol is the formatted value of c, price_change and change_24h
\* are both P, and one more display update is scheduled; and once Tk has
\* run the updates scheduled, the label shows that price and that change
\* with the arrow up exactly when P >= 0.
C22_TickPublished ==
    /\ [][\A t \in Threads :
             (StoreChange24h(t) /\ last.op = "tick")
             => /\ currency_data'[threads[t].cur] = DataOf(TickOf(last.arg))
                /\ pending'[threads[t].cur] = pending[threads[t].cur] + 1
         ]_vars
    /\ [](\A t \in Threads :
             ( /\ threads[t].pc = "recv"
               /\ last.op = "tick"
               /\ pending[threads[t].cur] = 0
               /\ phase = "mainloop" )
             => display[threads[t].cur] = LabelOf(TickOf(last.arg)))

\* the ticker with price 50 and no change is on the label, arrow up
C22_Witness ==
    /\ last = StepOf("tick", 5000000)
    /\ \E c \in Range(selected_currencies) :
           /\ display[c] = LabelOf(Ticker(5000000, 0))
           /\ display[c].arrow = "up"
           /\ currency_data[c] = DataOf(Ticker(5000000, 0))

\* C23: when every connection attempt of a selected symbol fails, and
\* neither Reconnect nor a change of the selection happens, a connection
\* thread that is scheduled fairly ends: the symbol is Failed, its thread
\* has terminated, and the failures handled are one more than
\* max_reconnect_attempts; there is no retry after that.
C23_RetryTerminates ==
    \A c \in Codes :
        (LiveThreadsOf(c) # {})
        ~> [](/\ failed[c]
              /\ LiveThreadsOf(c) = {}
              /\ fails[c] = max_reconnect_attempts + 1
              /\ currency_data[c].price = Error)

\* both selected symbols have failed for good and no thread is left
C23_Witness ==
    /\ selected_currencies = <<"ETH", "BTC">>
    /\ failed["ETH"] /\ failed["BTC"]
    /\ fails["ETH"] = max_reconnect_attempts + 1
    /\ \A t \in Threads : threads[t].pc = "free"

\* C24: the turn of the receive loop on a message that does not decode
\* changes nothing of currency_data (price, price_change and change_24h
\* of every symbol stay as the previous tick left them) and schedules no
\* display update; the labels stay as they are.
C24_FailedDecodeNoChange ==
    [][\A t \in Threads : \A message \in DecodeMessages :
          ( /\ OnMessage(t, message)
            /\ DecodeError(message) # "none" )
          => /\ currency_data' = currency_data
             /\ pending' = pending
             /\ display' = display
      ]_vars

\* a ticker was stored and displayed, and the message after it was
\* dropped at line 449
C24_Witness ==
    /\ last = StepOf("dropped", 0)
    /\ \E c \in Range(selected_currencies) :
           /\ currency_data[c] = DataOf(Ticker(5140, 150))
           /\ display[c] = LabelOf(Ticker(5140, 150))
           /\ pending[c] = 0

\* C25: while the application runs, a message received by the connection
\* of a symbol that is no longer selected ends the receive loop: the
\* coroutine returns (no retry), its websocket is closed, "Error" is not
\* written, and currency_data, the counters and the Tk queue stay as they
\* are, whatever the message holds.
C25_RemovedStopsAtNextMessage ==
    [][\A t \in Threads : \A message \in RemoveMessages :
          ( /\ OnMessage(t, message)
            /\ running
            /\ threads[t].cur \notin Range(selected_currencies) )
          => /\ threads'[t].pc = "free"
             /\ threads[t].reg => websockets'[threads[t].cur] = "closed"
             /\ currency_data' = currency_data
             /\ reconnect_attempts' = reconnect_attempts
             /\ pending' = pending
             /\ failed' = failed
      ]_vars

\* BTC was streaming and had a price when it was removed; a ticker came
\* after the removal: the thread has ended, the websocket is closed and
\* the price is as it was
C25_Witness ==
    /\ last = StepOf("stopped", 0)
    /\ "BTC" \notin Range(selected_currencies)
    /\ LiveThreadsOf("BTC") = {}
    /\ websockets["BTC"] = "closed"
    /\ currency_data["BTC"] = DataOf(Ticker(5140, 150))

============================================================================
